---- MODULE Spec2Model ----
(***************************************************************************)
(* Model of the services of rbuysse/pb: the paste service                  *)
(* (paste_service.go, hash.go, paste.go), the auth, admin and API key      *)
(* services, and the models of the GORM schema.                            *)
(*                                                                         *)
(* The store is the database: the tables pastes, users, sessions, api_keys *)
(* and admins.  Paste carries a gorm.DeletedAt field, so every query on    *)
(* pastes issued through the ORM is scoped to rows whose deleted_at is     *)
(* NULL and every Delete on pastes issued through the ORM is a soft delete *)
(* (UPDATE pastes SET deleted_at = now): paste rows never leave the table. *)
(* The other models have no such field: their rows are removed.            *)
(*                                                                         *)
(* A nullable Go pointer (to int, uint or time.Time) is a sequence of     *)
(* length at most one: Nil is the nil pointer, Some(v) points at v.        *)
(***************************************************************************)
EXTENDS Integers, Sequences, FiniteSets, TLC

\* ------------------------------------------------------------------ bounds
\* Number of distinct paste IDs randfilename can return in the model.
MaxIDs == 2
\* Number of registered users whose IDs are used as owner / viewer.
MaxUsers == 2
\* The clock makes at most MaxTime steps; one unit of the clock is one minute.
MaxTime == 2
\* Number of distinct session IDs generateSessionID can return in the model.
MaxSessions == 2
\* Number of API keys ever created.
MaxKeys == 2
\* Number of requests and sweeps that can be in progress at the same time.
MaxProcs == 2

\* ------------------------------------------------------------------ values
Nil == <<>>
Some(v) == <<v>>

\* Paste IDs.  randfilename draws 8 letters at random; the model draws one of
\* MaxIDs values, and the integer order stands for the byte order of the
\* strings (what ORDER BY id compares).
PasteIDs == 1..MaxIDs
\* An ID that randfilename never returns in the model: no row ever carries it.
AbsentID == MaxIDs + 1

Users == 1..MaxUsers
\* Owner scope / viewer: a user ID or nil (anonymous).
Scopes == {Nil} \cup {Some(u) : u \in Users}

Contents == {"", "a", "b"}
\* Two long contents, named by what they are: 10<<20 bytes, and one byte more.
AtLimit == "x repeated 10485760 times"
OverLimit == "x repeated 10485761 times"
SizeContents == {"", "a", AtLimit, OverLimit}
NonEmpty == {"a", "b"}
\* Title and language of a request.
Metas == {[title |-> "", language |-> "text"], [title |-> "t", language |-> "go"]}
\* expiresIn (pointer to int): nil, 0 (never expires), 1 minute.
ExpiresIns == {Nil, Some(0), Some(1)}

\* Usernames of 2, 3, 50 and 51 bytes, and passwords of 5 and 6 bytes.
Usernames == {"ab", "abc",
              "uuuuuuuuuuuuuuuuuuuuuuuuuuuuuuuuuuuuuuuuuuuuuuuuuu",
              "uuuuuuuuuuuuuuuuuuuuuuuuuuuuuuuuuuuuuuuuuuuuuuuuuuu"}
Passwords == {"12345", "123456"}
\* An ID no user ever gets in the model.
AbsentUser == MaxUsers + 1

\* Session IDs.  generateSessionID encodes 32 random bytes; the model draws one
\* of MaxSessions values.
SessionIDs == 1..MaxSessions
AbsentSession == MaxSessions + 1

KeyIDs == 1..MaxKeys

\* The goroutines that serve requests and run sweeps.
Procs == 1..MaxProcs
AbsentKey == MaxKeys + 1
\* The key strings CreateAPIKey can draw: "pb_" and the hex of random bytes,
\* cut short here.
KeyStrings == {"pb_01", "pb_02"}
AbsentKeyString == "pb_ff"
\* expiresInDays (pointer to int): nil, 0 (never expires), 30 days.
ExpiresInDays == {Nil, Some(0), Some(30)}

NoErr == "nil"
ErrEmpty == "paste content cannot be empty"
ErrTooLarge == "paste too large (max 10MB)"
ErrPrivateAnon == "must be logged in to create private pastes"
ErrNotFound == "paste not found"
ErrEditOwn == "you can only edit your own pastes"
ErrDeleteOwn == "you can only delete your own pastes"
ErrUnique == "UNIQUE constraint failed: pastes.id"
ErrUsernameLen == "username must be between 3 and 50 characters"
ErrPasswordLen == "password must be at least 6 characters"
ErrUsernameExists == "username already exists"
ErrSession == "invalid or expired session"
ErrUniqueSession == "UNIQUE constraint failed: sessions.id"
ErrInvalidKey == "invalid API key"
ErrKeyExpired == "API key expired"
ErrKeyNotFound == "API key not found"
ErrUniqueKey == "UNIQUE constraint failed: api_keys.key"
ErrUniqueAdmin == "UNIQUE constraint failed: admins.user_id"
ErrUserNotFound == "user not found"

\* ------------------------------------------------------------------ state
VARIABLES
    pastes,     \* the pastes table: paste ID -> row (soft-deleted rows included)
    now,        \* time.Now(), in minutes
    last,       \* the last call made on the service and the error it returned
    returned,   \* history: <<content, userID, id>> of every successful CreatePaste
    deletedOK,  \* history: the IDs on which DeletePaste returned nil
    users,      \* the users table: user ID -> row
    sessions,   \* the sessions table: session ID -> row
    apikeys,    \* the api_keys table: key ID -> row
    admins,     \* the admins table: admin ID -> row
    seq,        \* sqlite_sequence: the last ID given out in each table
    deletedUsers, \* history: the user IDs on which DeleteUser returned nil
    calls,      \* per goroutine: the call in progress and its local variables
    saved       \* history: the update requests whose Save has been executed

\* The tables and histories of the account services.
accounts == <<users, sessions, apikeys, admins, seq, deletedUsers>>

\* The calls in progress and their history.
inflight == <<calls, saved>>

vars == <<pastes, now, last, returned, deletedOK, accounts, inflight>>

\* ------------------------------------------------------------------ hash.go
\* 10<<20, the largest content CreatePaste accepts.
MaxContentLen == 10485760

\* len(content), in bytes.
ContentLen(content) ==
    CASE content = ""        -> 0
      [] content = AtLimit   -> MaxContentLen
      [] content = OverLimit -> MaxContentLen + 1
      [] OTHER               -> 1

\* MD5 of the content, printed with %x: the digests of the model's contents.
computeFileHash(content) ==
    CASE content = ""  -> "d41d8cd98f00b204e9800998ecf8427e"
      [] content = "a" -> "0cc175b9c0f1b6a831c399e269772661"
      [] content = "b" -> "92eb5ffee6ae2fec3ad71c777531578f"
      [] content = AtLimit   -> "46f40f95feefb6ab49b2b3679b5ec0a2"
      [] content = OverLimit -> "a2390a0203659da6a636fccb78bb60d6"

\* ------------------------------------------------------------------ ORM
\* Mutant of NotDeleted: the query is Unscoped and sees soft-deleted rows.
NotDeleted_Unscoped(paste) ==
    TRUE

\* The soft-delete scope GORM adds to every query on Paste.
NotDeleted(paste) ==
    paste.DeletedAt = Nil

\* The IDs of the rows a query sees.
Visible ==
    {id \in DOMAIN pastes : NotDeleted(pastes[id])}

Min(S) ==
    CHOOSE x \in S : \A y \in S : x <= y

\* db.Where(...).First(&row): the matching row with the least primary key.
First(ids) ==
    IF ids = {} THEN Nil ELSE Some(pastes[Min(ids)])

\* db.Where("id = ?", pasteID).First(&paste)
FirstByID(pasteID) ==
    First({id \in Visible : id = pasteID})

Result(err, paste, table) ==
    [err |-> err, paste |-> paste, table |-> table]

\* ------------------------------------------------------------------ CreatePaste
\* expiresAt of a new paste.
ExpiresAtOf(expiresIn) ==
    IF expiresIn # Nil /\ expiresIn[1] > 0
    THEN Some(now + expiresIn[1])
    ELSE Nil

\* Mutant of DedupMatch: the query matches the hash alone, in every scope.
DedupMatch_HashOnly(paste, hash, userID) ==
    paste.ContentHash = hash

\* The WHERE clause of the deduplication query.
DedupMatch(paste, hash, userID) ==
    /\ paste.ContentHash = hash
    /\ paste.UserID = userID

\* The Paste literal CreatePaste builds, with the autoCreateTime and
\* autoUpdateTime columns db.Create fills in.  Requests name a language, as the
\* upload handler makes them do, so the column default is never used.
NewPaste(pasteID, title, content, hash, language, isPrivate, unlisted, expiresAt, userID) ==
    [ID          |-> pasteID,
     Title       |-> title,
     Content     |-> content,
     ContentHash |-> hash,
     Language    |-> language,
     IsPrivate   |-> isPrivate,
     Unlisted    |-> unlisted,
     ExpiresAt   |-> expiresAt,
     UserID      |-> userID,
     CreatedAt   |-> now,
     UpdatedAt   |-> now,
     DeletedAt   |-> Nil]

\* Mutant of Insert: a unique index on owner and hash refuses a second paste
\* of the same owner scope and content.
Insert_UniqueScopeAndHash(paste) ==
    IF \/ paste.ID \in DOMAIN pastes
       \/ \E id \in DOMAIN pastes : /\ pastes[id].UserID = paste.UserID
                                     /\ pastes[id].ContentHash = paste.ContentHash
    THEN Result(ErrUnique, Nil, pastes)
    ELSE Result(NoErr, Some(paste), pastes @@ (paste.ID :> paste))

\* db.Create(paste): the INSERT fails when a row (deleted or not) has the ID.
Insert(paste) ==
    IF paste.ID \in DOMAIN pastes
    THEN Result(ErrUnique, Nil, pastes)
    ELSE Result(NoErr, Some(paste), pastes @@ (paste.ID :> paste))

\* Mutant of PrivateNeedsUser: the check is missing.
PrivateNeedsUser_Never(isPrivate, userID) ==
    FALSE

\* Anonymous users cannot create private pastes.
PrivateNeedsUser(isPrivate, userID) ==
    isPrivate /\ userID = Nil

\* Mutant of TooLarge: content of exactly 10<<20 bytes is refused too.
TooLarge_AtLimit(content) ==
    ContentLen(content) >= MaxContentLen

\* len(content) > 10<<20
TooLarge(content) ==
    ContentLen(content) > MaxContentLen

\* CreatePaste; pasteID is what randfilename(8, "") returns in this call.
CreatePasteResult(title, content, language, isPrivate, unlisted, expiresIn, userID, pasteID) ==
    IF ContentLen(content) = 0 THEN Result(ErrEmpty, Nil, pastes)
    ELSE IF TooLarge(content) THEN Result(ErrTooLarge, Nil, pastes)
    ELSE IF PrivateNeedsUser(isPrivate, userID) THEN Result(ErrPrivateAnon, Nil, pastes)
    ELSE
      LET expiresAt == ExpiresAtOf(expiresIn)
          hash == computeFileHash(content)
          existingPaste == First({id \in Visible : DedupMatch(pastes[id], hash, userID)})
      IN  IF existingPaste # Nil
          THEN Result(NoErr, existingPaste, pastes)
          ELSE Insert(NewPaste(pasteID, title, content, hash, language,
                               isPrivate, unlisted, expiresAt, userID))

\* ------------------------------------------------------------------ GetPaste
\* Mutant of Expired: Before instead of After.
Expired_Before(paste) ==
    paste.ExpiresAt # Nil /\ now < paste.ExpiresAt[1]

\* paste.ExpiresAt != nil and time.Now() is after paste.ExpiresAt
Expired(paste) ==
    paste.ExpiresAt # Nil /\ now > paste.ExpiresAt[1]

\* Mutant of Hidden: any logged-in viewer passes the privacy check.
Hidden_AnonymousOnly(paste, viewerUserID) ==
    paste.IsPrivate /\ viewerUserID = Nil

\* The privacy check: a private paste is hidden from everyone but its owner.
Hidden(paste, viewerUserID) ==
    /\ paste.IsPrivate
    /\ \/ viewerUserID = Nil
       \/ paste.UserID = Nil
       \/ viewerUserID[1] # paste.UserID[1]

GetPaste(pasteID, viewerUserID) ==
    LET found == FirstByID(pasteID)
    IN  IF found = Nil THEN Result(ErrNotFound, Nil, pastes)
        ELSE IF Expired(found[1]) THEN Result(ErrNotFound, Nil, pastes)
        ELSE IF Hidden(found[1], viewerUserID) THEN Result(ErrNotFound, Nil, pastes)
        ELSE Result(NoErr, found, pastes)

\* ------------------------------------------------------------------ UpdatePaste
\* Mutant of NotOwner: only the nil check, the owner is not compared.
NotOwner_NilOnly(paste, userID) ==
    paste.UserID = Nil

\* paste.UserID == nil or paste.UserID differs from userID
NotOwner(paste, userID) ==
    paste.UserID = Nil \/ paste.UserID[1] # userID

\* Mutant of Updated: the hash is not recomputed.
Updated_KeepHash(paste, title, content, language, unlisted) ==
    [paste EXCEPT !.Title    = title,
                  !.Content  = content,
                  !.Language = language,
                  !.Unlisted = unlisted,
                  !.UpdatedAt = now]

\* Mutant of Updated: the creation timestamp is set as well.
Updated_TouchesCreatedAt(paste, title, content, language, unlisted) ==
    [paste EXCEPT !.Title       = title,
                  !.Content     = content,
                  !.ContentHash = computeFileHash(content),
                  !.Language    = language,
                  !.Unlisted    = unlisted,
                  !.CreatedAt   = now,
                  !.UpdatedAt   = now]

\* The assignments UpdatePaste makes to the row it read.
Updated(paste, title, content, language, unlisted) ==
    [paste EXCEPT !.Title       = title,
                  !.Content     = content,
                  !.ContentHash = computeFileHash(content),
                  !.Language    = language,
                  !.Unlisted    = unlisted,
                  !.UpdatedAt   = now]

\* Mutant of Save: only the columns whose value in the struct is not the zero
\* value are written, as db.Updates(&paste) does.
Save_NonZeroColumns(paste) ==
    [pastes EXCEPT ![paste.ID] =
        [paste EXCEPT !.Title = IF paste.Title = "" THEN pastes[paste.ID].Title
                                ELSE paste.Title,
                      !.Unlisted = paste.Unlisted \/ pastes[paste.ID].Unlisted]]

\* db.Save(&paste): UPDATE of every column of the row with the struct's ID
\* that is not marked deleted; when that matches no row, GORM's Save goes on
\* with INSERT ... ON CONFLICT (id) DO UPDATE of every column, deleted_at
\* included.  Either way the row with the struct's ID becomes the struct.
Save(paste) ==
    [pastes EXCEPT ![paste.ID] = paste]

UpdatePasteResult(pasteID, title, content, language, unlisted, userID) ==
    LET found == FirstByID(pasteID)
    IN  IF found = Nil THEN Result(ErrNotFound, Nil, pastes)
        ELSE IF NotOwner(found[1], userID) THEN Result(ErrEditOwn, Nil, pastes)
        ELSE LET paste == Updated(found[1], title, content, language, unlisted)
             IN  Result(NoErr, Some(paste), Save(paste))

\* ------------------------------------------------------------------ DeletePaste
\* db.Delete(&paste): the soft delete of the row with the struct's ID.
SoftDelete(ids) ==
    [id \in DOMAIN pastes |->
        IF id \in ids /\ NotDeleted(pastes[id])
        THEN [pastes[id] EXCEPT !.DeletedAt = Some(now)]
        ELSE pastes[id]]

DeletePasteResult(pasteID, userID) ==
    LET found == FirstByID(pasteID)
    IN  IF found = Nil THEN Result(ErrNotFound, Nil, pastes)
        ELSE IF NotOwner(found[1], userID) THEN Result(ErrDeleteOwn, Nil, pastes)
        ELSE Result(NoErr, Nil, SoftDelete({pasteID}))

\* ------------------------------------------------------------------ listings
\* Mutant of PublicFilter: the unlisted condition is missing.
PublicFilter_PrivateOnly(paste) ==
    ~paste.IsPrivate

\* is_private = false AND unlisted = false
PublicFilter(paste) ==
    ~paste.IsPrivate /\ ~paste.Unlisted

\* GetAllPublicPastes, as the set of rows it returns.
GetAllPublicPastes ==
    {pastes[id] : id \in {i \in Visible : PublicFilter(pastes[i])}}

\* GetUserPastes, as the set of rows it returns.
GetUserPastes(userID) ==
    {pastes[id] : id \in {i \in Visible : pastes[i].UserID = Some(userID)}}

\* ------------------------------------------------------------------ sweep
\* Mutant of SweepMatchAt: a paste is swept at its expiration instant already.
SweepMatchAt_Inclusive(paste, t) ==
    paste.ExpiresAt # Nil /\ paste.ExpiresAt[1] <= t

\* expires_at IS NOT NULL AND expires_at < t, for the t the sweep read from
\* the clock before it issued the statement
SweepMatchAt(paste, t) ==
    paste.ExpiresAt # Nil /\ paste.ExpiresAt[1] < t

\* The IDs a sweep that read t from the clock deletes.
SweepIDsAt(t) ==
    {id \in Visible : SweepMatchAt(pastes[id], t)}

\* expires_at IS NOT NULL AND expires_at < now
SweepMatch(paste) ==
    paste.ExpiresAt # Nil /\ paste.ExpiresAt[1] < now

\* Mutant of SweepIDs: the sweep is Unscoped and matches soft-deleted rows too.
SweepIDs_AllRows ==
    {id \in DOMAIN pastes : SweepMatch(pastes[id])}

\* The IDs CleanupExpiredPastes deletes; RowsAffected is their number.
SweepIDs ==
    {id \in Visible : SweepMatch(pastes[id])}

\* CleanupExpiredPastes: RowsAffected and the table it leaves.
CleanupExpiredPastesResult ==
    [count |-> Cardinality(SweepIDs), table |-> SoftDelete(SweepIDs)]

\* ------------------------------------------------------------------ accounts
\* What a call on the account services returns, and the table it leaves.
Outcome(err, row, table) ==
    [err |-> err, row |-> row, table |-> table]

\* A hard delete: the rows with the given keys leave the table.
DeleteRows(table, ids) ==
    [id \in DOMAIN table \ ids |-> table[id]]

\* One day and thirty days, in minutes.
MinutesPerDay == 24 * 60
SessionTTL == 30 * 24 * 60

\* bcrypt.GenerateFromPassword: a hash that CompareHashAndPassword accepts for
\* this password and no other.
bcrypt(password) ==
    <<"bcrypt", password>>

\* Mutant of UsernameTaken: the unique index is missing.
UsernameTaken_Never(username) ==
    FALSE

\* The unique index on users.username refuses the INSERT.
UsernameTaken(username) ==
    \E id \in DOMAIN users : users[id].Username = username

\* Register; the new row gets the next ID of the AUTOINCREMENT primary key.
RegisterResult(username, password) ==
    IF Len(username) < 3 \/ Len(username) > 50
    THEN Outcome(ErrUsernameLen, Nil, users)
    ELSE IF Len(password) < 6
    THEN Outcome(ErrPasswordLen, Nil, users)
    ELSE LET user == [ID           |-> seq.users + 1,
                      Username     |-> username,
                      PasswordHash |-> bcrypt(password),
                      CreatedAt    |-> now]
         IN  IF UsernameTaken(username)
             THEN Outcome(ErrUsernameExists, Nil, users)
             ELSE Outcome(NoErr, Some(user), users @@ (user.ID :> user))

\* CreateSession; sessionID is what generateSessionID returns in this call.
CreateSessionResult(userID, sessionID) ==
    LET session == [ID        |-> sessionID,
                    UserID    |-> userID,
                    ExpiresAt |-> now + SessionTTL,
                    CreatedAt |-> now]
    IN  IF sessionID \in DOMAIN sessions
        THEN Outcome(ErrUniqueSession, Nil, sessions)
        ELSE Outcome(NoErr, Some(session), sessions @@ (sessionID :> session))

\* Mutant of SessionLive: a session is still accepted at its expiration instant.
SessionLive_AtExpiry(session) ==
    session.ExpiresAt >= now

\* expires_at > now
SessionLive(session) ==
    session.ExpiresAt > now

\* The query of GetSession, on a given content of the sessions table.
GetSessionIn(table, sessionID) ==
    IF sessionID \in DOMAIN table /\ SessionLive(table[sessionID])
    THEN Outcome(NoErr, Some(table[sessionID]), table)
    ELSE Outcome(ErrSession, Nil, table)

\* GetSession
GetSession(sessionID) ==
    GetSessionIn(sessions, sessionID)

\* Mutant of DeleteSessionMatch: every session of the same user matches.
DeleteSessionMatch_SameUser(session, sessionID) ==
    /\ sessionID \in DOMAIN sessions
    /\ session.UserID = sessions[sessionID].UserID

\* id = sessionID
DeleteSessionMatch(session, sessionID) ==
    session.ID = sessionID

\* DeleteSession: the error of the DELETE, which is nil whatever it matched.
DeleteSessionResult(sessionID) ==
    Outcome(NoErr, Nil,
            DeleteRows(sessions,
                       {id \in DOMAIN sessions :
                            DeleteSessionMatch(sessions[id], sessionID)}))

\* The sessions CleanupExpiredSessions deletes: expires_at < now
ExpiredSessionIDs ==
    {id \in DOMAIN sessions : sessions[id].ExpiresAt < now}

\* The sessions a sweep that read t from the clock deletes.
ExpiredSessionIDsAt(t) ==
    {id \in DOMAIN sessions : sessions[id].ExpiresAt < t}

\* expiresAt of a new API key: now.AddDate(0, 0, days)
KeyExpiresAtOf(expiresInDays) ==
    IF expiresInDays # Nil /\ expiresInDays[1] > 0
    THEN Some(now + expiresInDays[1] * MinutesPerDay)
    ELSE Nil

\* CreateAPIKey; keyString is the key drawn in this call.  The unique index on
\* api_keys.key refuses a key that is stored already.
CreateAPIKeyResult(userID, name, expiresInDays, keyString) ==
    LET apiKey == [ID        |-> seq.api_keys + 1,
                   Key       |-> keyString,
                   Name      |-> name,
                   UserID    |-> userID,
                   ExpiresAt |-> KeyExpiresAtOf(expiresInDays),
                   LastUsed  |-> Nil,
                   CreatedAt |-> now]
    IN  IF \E id \in DOMAIN apikeys : apikeys[id].Key = keyString
        THEN Outcome(ErrUniqueKey, Nil, apikeys)
        ELSE Outcome(NoErr, Some(apiKey), apikeys @@ (apiKey.ID :> apiKey))

\* The zero value of User: what Preload leaves in the struct when it finds no
\* row.
ZeroUser ==
    [ID |-> 0, Username |-> "", PasswordHash |-> "", CreatedAt |-> 0]

\* Preload("User"): the row of users the key refers to.
PreloadUser(userID) ==
    IF userID \in DOMAIN users THEN users[userID] ELSE ZeroUser

\* Mutant of KeyExpired: the expiration is not looked at.
KeyExpired_Never(apiKey) ==
    FALSE

\* apiKey.ExpiresAt != nil and time.Now() is after it
KeyExpired(apiKey) ==
    apiKey.ExpiresAt # Nil /\ now > apiKey.ExpiresAt[1]

\* ValidateAPIKey on a given content of the api_keys table: the user it
\* returns and the table it leaves.
ValidateAPIKeyIn(table, keyString) ==
    LET ids == {id \in DOMAIN table : table[id].Key = keyString}
    IN  IF ids = {} THEN Outcome(ErrInvalidKey, Nil, table)
        ELSE LET apiKey == table[Min(ids)]
             IN  IF KeyExpired(apiKey) THEN Outcome(ErrKeyExpired, Nil, table)
                 ELSE Outcome(NoErr, Some(PreloadUser(apiKey.UserID)),
                              [table EXCEPT ![apiKey.ID].LastUsed = Some(now)])

\* ValidateAPIKey
ValidateAPIKeyResult(keyString) ==
    ValidateAPIKeyIn(apikeys, keyString)

\* Mutant of DeleteKeyMatch: the owner is not compared.
DeleteKeyMatch_AnyOwner(apiKey, keyID, userID) ==
    apiKey.ID = keyID

\* id = keyID AND user_id = userID
DeleteKeyMatch(apiKey, keyID, userID) ==
    apiKey.ID = keyID /\ apiKey.UserID = userID

\* DeleteAPIKey
DeleteAPIKeyResult(keyID, userID) ==
    LET ids == {id \in DOMAIN apikeys : DeleteKeyMatch(apikeys[id], keyID, userID)}
    IN  IF ids = {} THEN Outcome(ErrKeyNotFound, Nil, apikeys)
        ELSE Outcome(NoErr, Nil, DeleteRows(apikeys, ids))

\* IsAdmin
IsAdmin(userID) ==
    \E id \in DOMAIN admins : admins[id].UserID = userID

\* MakeAdmin; the unique index on admins.user_id refuses a second marker.
MakeAdminResult(userID) ==
    LET admin == [ID |-> seq.admins + 1, UserID |-> userID, CreatedAt |-> now]
    IN  IF IsAdmin(userID) THEN Outcome(ErrUniqueAdmin, Nil, admins)
        ELSE Outcome(NoErr, Some(admin), admins @@ (admin.ID :> admin))

\* Mutant of OwnedBy: the deletes by owner match nothing.
OwnedBy_Nothing(row, userID) ==
    FALSE

\* user_id = userID, on sessions, api_keys and admins
OwnedBy(row, userID) ==
    row.UserID = userID

\* The rows of a table with user_id = userID.
RowsOf(table, userID) ==
    {id \in DOMAIN table : OwnedBy(table[id], userID)}

\* DeleteUser: the four deletes by owner, whose results are not looked at, and
\* the delete of the user row, whose RowsAffected decides the error.  The
\* delete on pastes is a soft delete; the database is opened without the
\* foreign_keys pragma, so the rows left in pastes do not hold back the delete
\* of the user row.
DeleteUserResult(userID) ==
    [err      |-> IF userID \in DOMAIN users THEN NoErr ELSE ErrUserNotFound,
     sessions |-> DeleteRows(sessions, RowsOf(sessions, userID)),
     apikeys  |-> DeleteRows(apikeys, RowsOf(apikeys, userID)),
     pastes   |-> SoftDelete({id \in Visible : pastes[id].UserID = Some(userID)}),
     admins   |-> DeleteRows(admins, RowsOf(admins, userID)),
     users    |-> DeleteRows(users, {userID})]

\* ------------------------------------------------------------------ actions
\* No call in progress.
Idle ==
    [op |-> "idle"]

Call(op, err) ==
    [op |-> op, err |-> err]

Init ==
    /\ pastes = <<>>
    /\ now = 0
    /\ last = Call("init", NoErr)
    /\ returned = {}
    /\ deletedOK = {}
    /\ users = <<>>
    /\ sessions = <<>>
    /\ apikeys = <<>>
    /\ admins = <<>>
    /\ seq = [users |-> 0, api_keys |-> 0, admins |-> 0]
    /\ deletedUsers = {}
    /\ calls = [p \in Procs |-> Idle]
    /\ saved = {}

CreatePaste(title, content, language, isPrivate, unlisted, expiresIn, userID, pasteID) ==
    LET r == CreatePasteResult(title, content, language, isPrivate, unlisted,
                               expiresIn, userID, pasteID)
    IN  /\ pastes' = r.table
        /\ last' = Call("create", r.err)
        /\ returned' = IF r.err = NoErr
                       THEN returned \cup {<<content, userID, r.paste[1].ID>>}
                       ELSE returned
        /\ UNCHANGED <<inflight, now, deletedOK, accounts>>

UpdatePaste(pasteID, title, content, language, unlisted, userID) ==
    LET r == UpdatePasteResult(pasteID, title, content, language, unlisted, userID)
    IN  /\ pastes' = r.table
        /\ last' = Call("update", r.err)
        /\ UNCHANGED <<inflight, now, returned, deletedOK, accounts>>

DeletePaste(pasteID, userID) ==
    LET r == DeletePasteResult(pasteID, userID)
    IN  /\ pastes' = r.table
        /\ last' = Call("delete", r.err)
        /\ deletedOK' = IF r.err = NoErr THEN deletedOK \cup {pasteID} ELSE deletedOK
        /\ UNCHANGED <<inflight, now, returned, accounts>>

CleanupExpiredPastes ==
    /\ pastes' = CleanupExpiredPastesResult.table
    /\ last' = Call("cleanup", NoErr)
    /\ UNCHANGED <<inflight, now, returned, deletedOK, accounts>>

\* Time passes.
Tick ==
    /\ now < MaxTime
    /\ now' = now + 1
    /\ last' = Call("tick", NoErr)
    /\ UNCHANGED <<inflight, pastes, returned, deletedOK, accounts>>

\* Thirty days pass.
TickMonth ==
    /\ now < MaxTime * SessionTTL
    /\ now' = now + SessionTTL
    /\ last' = Call("tick", NoErr)
    /\ UNCHANGED <<inflight, pastes, returned, deletedOK, accounts>>

\* The paste store and its histories.
pasteStore == <<pastes, returned, deletedOK>>

Register(username, password) ==
    LET r == RegisterResult(username, password)
    IN  /\ r.err = NoErr => seq.users < MaxUsers
        /\ users' = r.table
        /\ seq' = IF r.err = NoErr THEN [seq EXCEPT !.users = @ + 1] ELSE seq
        /\ last' = Call("register", r.err)
        /\ UNCHANGED <<inflight, pasteStore, now, sessions, apikeys, admins, deletedUsers>>

CreateSession(userID, sessionID) ==
    LET r == CreateSessionResult(userID, sessionID)
    IN  /\ sessions' = r.table
        /\ last' = Call("createSession", r.err)
        /\ UNCHANGED <<inflight, pasteStore, now, users, apikeys, admins, seq, deletedUsers>>

\* A request that presents a session cookie: getCurrentUser reads the session.
ReadSession(sessionID) ==
    /\ last' = Call("getSession", GetSession(sessionID).err)
    /\ UNCHANGED <<inflight, pasteStore, now, accounts>>

DeleteSession(sessionID) ==
    LET r == DeleteSessionResult(sessionID)
    IN  /\ sessions' = r.table
        /\ last' = Call("deleteSession", r.err)
        /\ UNCHANGED <<inflight, pasteStore, now, users, apikeys, admins, seq, deletedUsers>>

CleanupExpiredSessions ==
    /\ sessions' = DeleteRows(sessions, ExpiredSessionIDs)
    /\ last' = Call("cleanupSessions", NoErr)
    /\ UNCHANGED <<inflight, pasteStore, now, users, apikeys, admins, seq, deletedUsers>>

CreateAPIKey(userID, name, expiresInDays, keyString) ==
    LET r == CreateAPIKeyResult(userID, name, expiresInDays, keyString)
    IN  /\ r.err = NoErr => seq.api_keys < MaxKeys
        /\ apikeys' = r.table
        /\ seq' = IF r.err = NoErr THEN [seq EXCEPT !.api_keys = @ + 1] ELSE seq
        /\ last' = Call("createKey", r.err)
        /\ UNCHANGED <<inflight, pasteStore, now, users, sessions, admins, deletedUsers>>

ValidateAPIKey(keyString) ==
    LET r == ValidateAPIKeyResult(keyString)
    IN  /\ apikeys' = r.table
        /\ last' = Call("validateKey", r.err)
        /\ UNCHANGED <<inflight, pasteStore, now, users, sessions, admins, seq, deletedUsers>>

DeleteAPIKey(keyID, userID) ==
    LET r == DeleteAPIKeyResult(keyID, userID)
    IN  /\ apikeys' = r.table
        /\ last' = Call("deleteKey", r.err)
        /\ UNCHANGED <<inflight, pasteStore, now, users, sessions, admins, seq, deletedUsers>>

MakeAdmin(userID) ==
    LET r == MakeAdminResult(userID)
    IN  /\ admins' = r.table
        /\ seq' = IF r.err = NoErr THEN [seq EXCEPT !.admins = @ + 1] ELSE seq
        /\ last' = Call("makeAdmin", r.err)
        /\ UNCHANGED <<inflight, pasteStore, now, users, sessions, apikeys, deletedUsers>>

DeleteUser(userID) ==
    LET r == DeleteUserResult(userID)
    IN  /\ sessions' = r.sessions
        /\ apikeys' = r.apikeys
        /\ pastes' = r.pastes
        /\ admins' = r.admins
        /\ users' = r.users
        /\ deletedUsers' = IF r.err = NoErr THEN deletedUsers \cup {userID}
                           ELSE deletedUsers
        /\ last' = Call("deleteUser", r.err)
        /\ UNCHANGED <<inflight, now, returned, deletedOK, seq>>

\* ------------------------------------------------------------------ steps
\* The handlers again, as the steps in which goroutines run them side by
\* side: every statement on the database is one step, and what a call has
\* read or computed between two statements is kept in calls.

\* The two complete update requests the goroutines send.
UpdateRequests ==
    {[title |-> "", content |-> "a", language |-> "text", unlisted |-> FALSE],
     [title |-> "t", content |-> "b", language |-> "go", unlisted |-> TRUE]}

\* UpdatePaste up to the Save: the row is read, the owner checked and the
\* struct assigned.  seen is the row as it was read.
UpdateRead(p, pasteID, title, content, language, unlisted, userID) ==
    LET found == FirstByID(pasteID)
    IN  /\ calls[p] = Idle
        /\ IF found = Nil
           THEN last' = Call("update", ErrNotFound) /\ UNCHANGED calls
           ELSE IF NotOwner(found[1], userID)
           THEN last' = Call("update", ErrEditOwn) /\ UNCHANGED calls
           ELSE /\ last' = Call("updateRead", NoErr)
                /\ calls' = [calls EXCEPT ![p] =
                       [op    |-> "update",
                        seen  |-> found[1],
                        paste |-> Updated(found[1], title, content, language, unlisted),
                        req   |-> [id |-> pasteID, title |-> title,
                                   content |-> content, language |-> language,
                                   unlisted |-> unlisted]]]
        /\ UNCHANGED <<pastes, now, returned, deletedOK, accounts, saved>>

\* The Save of UpdatePaste, which stamps the update time again, and its return.
UpdateSave(p) ==
    /\ calls[p].op = "update"
    /\ pastes' = Save([calls[p].paste EXCEPT !.UpdatedAt = now])
    /\ saved' = saved \cup {calls[p].req}
    /\ calls' = [calls EXCEPT ![p] = Idle]
    /\ last' = Call("update", NoErr)
    /\ UNCHANGED <<now, returned, deletedOK, accounts>>

\* CreatePaste up to the dedup query: the error of the checks, or the row the
\* query found (Nil when it found none).
CreateLookupResult(content, isPrivate, userID) ==
    IF ContentLen(content) = 0 THEN Result(ErrEmpty, Nil, pastes)
    ELSE IF TooLarge(content) THEN Result(ErrTooLarge, Nil, pastes)
    ELSE IF PrivateNeedsUser(isPrivate, userID) THEN Result(ErrPrivateAnon, Nil, pastes)
    ELSE Result(NoErr,
                First({id \in Visible :
                          DedupMatch(pastes[id], computeFileHash(content), userID)}),
                pastes)

\* CreatePaste up to the dedup query; a call that is refused or finds a paste
\* returns, a call that finds none goes on to the insert.
CreateLookup(p, title, content, language, isPrivate, unlisted, expiresIn, userID) ==
    LET r == CreateLookupResult(content, isPrivate, userID)
    IN  /\ calls[p] = Idle
        /\ IF r.err # NoErr \/ r.paste # Nil
           THEN /\ last' = Call("create", r.err)
                /\ returned' = IF r.err = NoErr
                               THEN returned \cup {<<content, userID, r.paste[1].ID>>}
                               ELSE returned
                /\ UNCHANGED calls
           ELSE /\ last' = Call("createLookup", NoErr)
                /\ calls' = [calls EXCEPT ![p] =
                       [op |-> "create", title |-> title, content |-> content,
                        hash |-> computeFileHash(content), language |-> language,
                        isPrivate |-> isPrivate, unlisted |-> unlisted,
                        expiresAt |-> ExpiresAtOf(expiresIn), userID |-> userID]]
                /\ UNCHANGED returned
        /\ UNCHANGED <<pastes, now, deletedOK, accounts, saved>>

\* The struct a call that missed the dedup query inserts under pasteID.
PendingPaste(p, pasteID) ==
    NewPaste(pasteID, calls[p].title, calls[p].content, calls[p].hash,
             calls[p].language, calls[p].isPrivate, calls[p].unlisted,
             calls[p].expiresAt, calls[p].userID)

\* The rest of CreatePaste: the ID is drawn and the row inserted.
CreateInsert(p, pasteID) ==
    /\ calls[p].op = "create"
    /\ LET r == Insert(PendingPaste(p, pasteID))
       IN  /\ pastes' = r.table
           /\ last' = Call("create", r.err)
           /\ returned' = IF r.err = NoErr
                          THEN returned \cup {<<calls[p].content, calls[p].userID, pasteID>>}
                          ELSE returned
    /\ calls' = [calls EXCEPT ![p] = Idle]
    /\ UNCHANGED <<now, deletedOK, accounts, saved>>

\* loginHandler up to CreateSession: Login has found the user.
BeginLogin(p, userID) ==
    /\ calls[p] = Idle
    /\ userID \in DOMAIN users
    /\ calls' = [calls EXCEPT ![p] = [op |-> "login", userID |-> userID]]
    /\ last' = Call("login", NoErr)
    /\ UNCHANGED <<pastes, now, returned, deletedOK, accounts, saved>>

\* The rest of loginHandler: CreateSession for the user Login returned.
FinishLogin(p, sessionID) ==
    /\ calls[p].op = "login"
    /\ LET r == CreateSessionResult(calls[p].userID, sessionID)
       IN  /\ sessions' = r.table
           /\ last' = Call("createSession", r.err)
    /\ calls' = [calls EXCEPT ![p] = Idle]
    /\ UNCHANGED <<pastes, now, returned, deletedOK, users, apikeys, admins,
                   seq, deletedUsers, saved>>

\* CleanupExpiredPastes reads the clock.
SweepStart(p) ==
    /\ calls[p] = Idle
    /\ calls' = [calls EXCEPT ![p] = [op |-> "sweep", t |-> now]]
    /\ last' = Call("sweepStart", NoErr)
    /\ UNCHANGED <<pastes, now, returned, deletedOK, accounts, saved>>

\* The statement of CleanupExpiredPastes, with the time read before.
SweepExec(p) ==
    /\ calls[p].op = "sweep"
    /\ pastes' = SoftDelete(SweepIDsAt(calls[p].t))
    /\ calls' = [calls EXCEPT ![p] = Idle]
    /\ last' = Call("cleanup", NoErr)
    /\ UNCHANGED <<now, returned, deletedOK, accounts, saved>>

\* CleanupExpiredSessions (and cleanExpiredSessions) reads the clock.
SessionSweepStart(p) ==
    /\ calls[p] = Idle
    /\ calls' = [calls EXCEPT ![p] = [op |-> "sweepSessions", t |-> now]]
    /\ last' = Call("sweepSessionsStart", NoErr)
    /\ UNCHANGED <<pastes, now, returned, deletedOK, accounts, saved>>

\* The statement of CleanupExpiredSessions, with the time read before.
SessionSweepExec(p) ==
    /\ calls[p].op = "sweepSessions"
    /\ sessions' = DeleteRows(sessions, ExpiredSessionIDsAt(calls[p].t))
    /\ calls' = [calls EXCEPT ![p] = Idle]
    /\ last' = Call("cleanupSessions", NoErr)
    /\ UNCHANGED <<pastes, now, returned, deletedOK, users, apikeys, admins,
                   seq, deletedUsers, saved>>

\* The specifications run the same handlers on different requests: each
\* varies the inputs its claims are about and holds the others at one value.

\* Spec: content, title, language, privacy and owner vary; nothing expires.
Next ==
    \/ \E meta \in Metas, content \in Contents, isPrivate \in BOOLEAN,
          userID \in Scopes, pasteID \in PasteIDs :
            CreatePaste(meta.title, content, meta.language, isPrivate, FALSE, Nil,
                        userID, pasteID)
    \/ \E pasteID \in PasteIDs, meta \in Metas, content \in NonEmpty,
          userID \in Users :
            UpdatePaste(pasteID, meta.title, content, meta.language, FALSE, userID)
    \/ \E pasteID \in PasteIDs, userID \in Users :
            DeletePaste(pasteID, userID)

Spec == Init /\ [][Next]_vars

\* SpecFields: the unlisted flag varies too, and updates change every field an
\* update can change; pastes are created with one content, title and language.
NextFields ==
    \/ \E content \in {"", "a"}, isPrivate \in BOOLEAN, unlisted \in BOOLEAN,
          userID \in Scopes, pasteID \in PasteIDs :
            CreatePaste("", content, "text", isPrivate, unlisted, Nil,
                        userID, pasteID)
    \/ \E pasteID \in PasteIDs, meta \in Metas, content \in NonEmpty,
          unlisted \in BOOLEAN, userID \in Users :
            UpdatePaste(pasteID, meta.title, content, meta.language, unlisted, userID)
    \/ \E pasteID \in PasteIDs, userID \in Users :
            DeletePaste(pasteID, userID)

SpecFields == Init /\ [][NextFields]_vars

\* SpecTime: pastes expire, the clock runs and the sweep runs; privacy and
\* owner vary.
NextTime ==
    \/ \E content \in {"", "a"}, isPrivate \in BOOLEAN,
          expiresIn \in ExpiresIns, userID \in Scopes, pasteID \in PasteIDs :
            CreatePaste("", content, "text", isPrivate, FALSE, expiresIn,
                        userID, pasteID)
    \/ \E pasteID \in PasteIDs, userID \in Users :
            UpdatePaste(pasteID, "", "a", "text", FALSE, userID)
    \/ \E pasteID \in PasteIDs, userID \in Users :
            DeletePaste(pasteID, userID)
    \/ CleanupExpiredPastes
    \/ Tick

SpecTime == Init /\ [][NextTime]_vars

\* SpecList: as SpecTime with the unlisted flag varying in creates and updates;
\* the requests are anonymous or come from one user.
NextList ==
    \/ \E content \in {"", "a"}, isPrivate \in BOOLEAN, unlisted \in BOOLEAN,
          expiresIn \in ExpiresIns, userID \in {Nil, Some(1)}, pasteID \in PasteIDs :
            CreatePaste("", content, "text", isPrivate, unlisted, expiresIn,
                        userID, pasteID)
    \/ \E pasteID \in PasteIDs, unlisted \in BOOLEAN :
            UpdatePaste(pasteID, "", "a", "text", unlisted, 1)
    \/ \E pasteID \in PasteIDs :
            DeletePaste(pasteID, 1)
    \/ CleanupExpiredPastes
    \/ Tick

SpecList == Init /\ [][NextList]_vars

\* SpecSize: the content of creates and updates is empty, short, exactly
\* 10<<20 bytes or one byte more.
NextSize ==
    \/ \E content \in SizeContents, isPrivate \in BOOLEAN,
          userID \in Scopes, pasteID \in PasteIDs :
            CreatePaste("", content, "text", isPrivate, FALSE, Nil,
                        userID, pasteID)
    \/ \E pasteID \in PasteIDs, content \in SizeContents, userID \in Users :
            UpdatePaste(pasteID, "", content, "text", FALSE, userID)
    \/ \E pasteID \in PasteIDs, userID \in Users :
            DeletePaste(pasteID, userID)

SpecSize == Init /\ [][NextSize]_vars

\* The handlers call CreateSession, CreateAPIKey and (for a logged-in user)
\* CreatePaste with the ID of a user they have just read from the users table:
\* in the specifications below these calls name a stored user.

\* SpecAccounts: users register with every kind of username and password,
\* log in, present their cookie and log out; sessions expire and are swept;
\* users are deleted.
NextAccounts ==
    \/ \E username \in Usernames, password \in Passwords :
            Register(username, password)
    \/ \E userID \in DOMAIN users, sessionID \in SessionIDs :
            CreateSession(userID, sessionID)
    \/ \E sessionID \in SessionIDs : ReadSession(sessionID)
    \/ \E sessionID \in SessionIDs : DeleteSession(sessionID)
    \/ CleanupExpiredSessions
    \/ \E userID \in Users : DeleteUser(userID)
    \/ TickMonth

SpecAccounts == Init /\ [][NextAccounts]_vars

\* SpecKeys: users create, present and delete API keys, which may expire;
\* users are deleted.
NextKeys ==
    \/ \E username \in {"abc", "abcd"} : Register(username, "123456")
    \/ \E userID \in DOMAIN users, expiresInDays \in ExpiresInDays,
          keyString \in KeyStrings :
            CreateAPIKey(userID, "k", expiresInDays, keyString)
    \/ \E keyString \in KeyStrings : ValidateAPIKey(keyString)
    \/ \E keyID \in KeyIDs, userID \in Users : DeleteAPIKey(keyID, userID)
    \/ \E userID \in Users : DeleteUser(userID)
    \/ TickMonth

SpecKeys == Init /\ [][NextKeys]_vars

\* SpecAdmin: users with sessions, API keys, pastes and admin markers are
\* deleted; the clock stands still.
NextAdmin ==
    \/ \E username \in {"abc", "abcd"} : Register(username, "123456")
    \/ \E userID \in DOMAIN users, sessionID \in SessionIDs :
            CreateSession(userID, sessionID)
    \/ \E userID \in DOMAIN users, keyString \in KeyStrings :
            CreateAPIKey(userID, "k", Nil, keyString)
    \/ \E userID \in DOMAIN users, isPrivate \in BOOLEAN, pasteID \in PasteIDs :
            CreatePaste("", "a", "text", isPrivate, FALSE, Nil, Some(userID), pasteID)
    \/ \E userID \in DOMAIN users : MakeAdmin(userID)
    \/ \E userID \in Users : DeleteUser(userID)

SpecAdmin == Init /\ [][NextAdmin]_vars

\* SpecRace: one user's creates and updates run side by side, step by step,
\* and the user deletes pastes; the clock stands still.
NextRace ==
    \/ \E p \in Procs, content \in NonEmpty :
            CreateLookup(p, "", content, "text", FALSE, FALSE, Nil, Some(1))
    \/ \E p \in Procs, pasteID \in PasteIDs : CreateInsert(p, pasteID)
    \/ \E p \in Procs, pasteID \in PasteIDs, req \in UpdateRequests :
            UpdateRead(p, pasteID, req.title, req.content, req.language,
                       req.unlisted, 1)
    \/ \E p \in Procs : UpdateSave(p)
    \/ \E pasteID \in PasteIDs : DeletePaste(pasteID, 1)

SpecRace == Init /\ [][NextRace]_vars

\* SpecSweep: the sweeps of pastes and of sessions run, step by step, beside
\* anonymous creates and logins; pastes expire after 30 days or never.  Of the
\* two sweeping goroutines of main, one is followed through its sweep of pastes
\* and the other through its sweep of sessions.
NextSweep ==
    \/ \E content \in NonEmpty, expiresIn \in {Nil, Some(SessionTTL)},
          pasteID \in PasteIDs :
            CreatePaste("", content, "text", FALSE, FALSE, expiresIn, Nil, pasteID)
    \/ Register("abc", "123456")
    \/ \E userID \in DOMAIN users, sessionID \in SessionIDs :
            CreateSession(userID, sessionID)
    \/ SweepStart(1)
    \/ SweepExec(1)
    \/ SessionSweepStart(2)
    \/ SessionSweepExec(2)
    \/ TickMonth

SpecSweep == Init /\ [][NextSweep]_vars

\* SpecOrphans: users are deleted while logins and creates on their behalf
\* are in progress.
NextOrphans ==
    \/ \E username \in {"abc", "abcd"} : Register(username, "123456")
    \/ \E p \in Procs, userID \in DOMAIN users : BeginLogin(p, userID)
    \/ \E p \in Procs, sessionID \in SessionIDs : FinishLogin(p, sessionID)
    \/ \E p \in Procs, userID \in DOMAIN users :
            CreateLookup(p, "", "a", "text", FALSE, FALSE, Nil, Some(userID))
    \/ \E p \in Procs, pasteID \in PasteIDs : CreateInsert(p, pasteID)
    \/ \E userID \in Users : DeleteUser(userID)

SpecOrphans == Init /\ [][NextOrphans]_vars

\* ------------------------------------------------------------------ claims
\* The requests a claim quantifies over.
Viewers == Scopes

\* C1: if CreatePaste succeeded for content c under owner scope s and returned
\* paste id, then as long as paste id is stored (not deleted) with content c,
\* every further CreatePaste of c under s returns id and adds no row.
C1_RepeatedCreateReturnsFirstID ==
    \A t \in returned :
        LET c == t[1]
            s == t[2]
            id == t[3]
        IN  (id \in Visible /\ pastes[id].Content = c) =>
                \A meta \in Metas, isPrivate \in BOOLEAN, pasteID \in PasteIDs :
                    (isPrivate => s # Nil) =>
                        LET r == CreatePasteResult(meta.title, c, meta.language,
                                                   isPrivate, FALSE, Nil, s, pasteID)
                        IN  /\ r.err = NoErr
                            /\ r.paste[1].ID = id
                            /\ r.table = pastes

\* C2: every paste a successful CreatePaste returned is owned by the scope
\* that submitted it, so the pastes returned to two different scopes, whatever
\* their content, have distinct IDs.
C2_DedupOnlyWithinScope ==
    /\ \A t \in returned :
            t[3] \in DOMAIN pastes /\ pastes[t[3]].UserID = t[2]
    /\ \A t1 \in returned, t2 \in returned :
            (t1[1] = t2[1] /\ t1[2] # t2[2]) => t1[3] # t2[3]

\* C2 witness: the same content was submitted anonymously and by a user, and
\* both calls succeeded.
C2_Witness ==
    \E t1 \in returned, t2 \in returned :
        t1[1] = t2[1] /\ t1[2] = Nil /\ t2[2] # Nil

\* C3: GetPaste on a private paste by anyone but its owner returns exactly
\* what GetPaste returns on an ID that does not exist; only the owner can be
\* given the paste.
C3_PrivateLooksAbsent ==
    \A id \in DOMAIN pastes :
        pastes[id].IsPrivate =>
            \A v \in Viewers :
                /\ v # pastes[id].UserID => GetPaste(id, v) = GetPaste(AbsentID, v)
                /\ GetPaste(id, v).err = NoErr => v = pastes[id].UserID

\* C3 witness: a private paste that its owner is given.
C3_Witness ==
    \E id \in DOMAIN pastes :
        /\ pastes[id].IsPrivate
        /\ GetPaste(id, pastes[id].UserID).err = NoErr
        /\ GetPaste(id, pastes[id].UserID).paste = Some(pastes[id])

\* C4: GetPaste on a paste whose expiration instant is before the current
\* time returns not found to every viewer, swept or not.
C4_ExpiredIsNotFound ==
    \A id \in DOMAIN pastes :
        (pastes[id].ExpiresAt # Nil /\ pastes[id].ExpiresAt[1] < now) =>
            \A v \in Viewers : GetPaste(id, v).err = ErrNotFound

\* C4 witness: an expired public paste that no sweep and no delete has touched.
C4_Witness ==
    \E id \in DOMAIN pastes :
        /\ pastes[id].ExpiresAt # Nil
        /\ pastes[id].ExpiresAt[1] < now
        /\ pastes[id].DeletedAt = Nil
        /\ ~pastes[id].IsPrivate

\* C5: UpdatePaste and DeletePaste by a user who is not the owner of a stored
\* paste (an anonymous paste has no owner) return an error and leave the
\* table, and so the paste row, as it was.
C5_NonOwnerCannotMutate ==
    \A id \in DOMAIN pastes, u \in Users :
        pastes[id].UserID # Some(u) =>
            /\ \A meta \in Metas, content \in NonEmpty, unlisted \in BOOLEAN :
                    LET r == UpdatePasteResult(id, meta.title, content,
                                               meta.language, unlisted, u)
                    IN  r.err # NoErr /\ r.table = pastes
            /\ LET d == DeletePasteResult(id, u)
               IN  d.err # NoErr /\ d.table = pastes

\* C5 witness: an update was refused for ownership while an anonymous paste
\* and a user's paste are stored.
C5_Witness ==
    /\ last = Call("update", ErrEditOwn)
    /\ \E id \in Visible : pastes[id].UserID = Nil
    /\ \E id \in Visible : pastes[id].UserID # Nil

\* C6: in every state that CreatePaste, UpdatePaste, DeletePaste and
\* CleanupExpiredPastes reach, GetAllPublicPastes returns no private paste and
\* no unlisted paste.
C6_PublicListingExcludesHidden ==
    \A paste \in GetAllPublicPastes : ~paste.IsPrivate /\ ~paste.Unlisted

\* C6 witness: a paste is listed while a stored private or unlisted one that
\* an update touched is not.
C6_Witness ==
    /\ GetAllPublicPastes # {}
    /\ last = Call("update", NoErr)
    /\ \E id \in Visible : pastes[id].IsPrivate \/ pastes[id].Unlisted

\* C7: the paste a successful CreatePaste returns carries the content,
\* language and privacy flag of the call (a private paste is then hidden from
\* every other viewer by GetPaste, C3).
C7_CreateReturnsWhatWasAsked ==
    \A meta \in Metas, content \in Contents, isPrivate \in BOOLEAN,
       userID \in Scopes, pasteID \in PasteIDs :
        LET r == CreatePasteResult(meta.title, content, meta.language,
                                   isPrivate, FALSE, Nil, userID, pasteID)
        IN  r.err = NoErr =>
                /\ r.paste[1].Content = content
                /\ r.paste[1].Language = meta.language
                /\ r.paste[1].IsPrivate = isPrivate

\* C8: once DeletePaste on a paste has returned nil, GetPaste on it returns
\* not found to every viewer, its owner included, in every later state.
C8_DeletedStaysAbsent ==
    \A id \in deletedOK, v \in Viewers :
        GetPaste(id, v).err = ErrNotFound

\* C8 witness: after a delete succeeded, a later CreatePaste stored or
\* returned a paste.
C8_Witness ==
    /\ deletedOK # {}
    /\ last = Call("create", NoErr)

\* C9, the state part: every stored private paste has an owner, and a
\* CreatePaste for a private paste without owner fails and stores nothing.
C9_PrivateHasOwner ==
    /\ \A id \in DOMAIN pastes :
            pastes[id].IsPrivate => pastes[id].UserID # Nil
    /\ \A content \in Contents, expiresIn \in ExpiresIns, pasteID \in PasteIDs :
            LET r == CreatePasteResult("", content, "text", TRUE, FALSE,
                                       expiresIn, Nil, pasteID)
            IN  r.err # NoErr /\ r.table = pastes

\* C9, the step part: no operation removes a row's owner or changes its
\* privacy flag.
C9_OwnerAndPrivacyKept ==
    \A id \in DOMAIN pastes :
        /\ id \in DOMAIN pastes'
        /\ pastes'[id].UserID = pastes[id].UserID
        /\ pastes'[id].IsPrivate = pastes[id].IsPrivate

\* C9: in every reachable state every stored private paste has an owner;
\* creating a private paste without owner fails and stores nothing, and no
\* later operation clears a paste's owner or sets its privacy flag.
C9_PrivateImpliesOwner ==
    []C9_PrivateHasOwner /\ [][C9_OwnerAndPrivacyKept]_vars

\* C9 witness: a private paste is stored and an anonymous request for a
\* private paste has just been refused.
C9_Witness ==
    /\ last = Call("create", ErrPrivateAnon)
    /\ \E id \in DOMAIN pastes : pastes[id].IsPrivate

\* C10: the fingerprint of every stored paste is the hash of its current
\* content.
C10_FingerprintMatchesContent ==
    \A id \in DOMAIN pastes :
        pastes[id].ContentHash = computeFileHash(pastes[id].Content)

\* C10 witness: an update has given a paste another content than the one it
\* was created with.
C10_Witness ==
    /\ last = Call("update", NoErr)
    /\ \E t \in returned :
            t[3] \in Visible /\ pastes[t[3]].Content # t[1]

\* C11: after any sequence of CreatePaste and UpdatePaste calls the content of
\* every stored paste is at least 1 byte and at most 10<<20 bytes long.
C11_ContentLengthInRange ==
    \A id \in Visible :
        /\ ContentLen(pastes[id].Content) >= 1
        /\ ContentLen(pastes[id].Content) <= MaxContentLen

\* C12: at most one stored (not deleted) paste has a given owner scope and
\* fingerprint.
C12_OnePastePerScopeAndFingerprint ==
    \A i \in Visible, j \in Visible :
        (pastes[i].UserID = pastes[j].UserID
            /\ pastes[i].ContentHash = pastes[j].ContentHash) => i = j

\* C13: a successful UpdatePaste leaves every other row as it was and, in the
\* row it updates, leaves the ID, the owner, the privacy flag, the expiration
\* instant and the creation timestamp (and the deletion mark) as they were.
C13_UpdateKeepsIdentity ==
    \A id \in DOMAIN pastes, meta \in Metas, content \in NonEmpty,
       unlisted \in BOOLEAN, u \in Users :
        LET r == UpdatePasteResult(id, meta.title, content, meta.language,
                                   unlisted, u)
        IN  r.err = NoErr =>
                /\ DOMAIN r.table = DOMAIN pastes
                /\ \A other \in DOMAIN pastes \ {id} :
                        r.table[other] = pastes[other]
                /\ r.table[id].ID = pastes[id].ID
                /\ r.table[id].UserID = pastes[id].UserID
                /\ r.table[id].IsPrivate = pastes[id].IsPrivate
                /\ r.table[id].ExpiresAt = pastes[id].ExpiresAt
                /\ r.table[id].CreatedAt = pastes[id].CreatedAt
                /\ r.table[id].DeletedAt = pastes[id].DeletedAt
                /\ r.paste = Some(r.table[id])

\* C13 witness: an update succeeded later than the creation of a private
\* paste that expires, and that paste carries the time of the update.
C13_Witness ==
    /\ last = Call("update", NoErr)
    /\ \E id \in Visible :
            /\ pastes[id].IsPrivate
            /\ pastes[id].ExpiresAt # Nil
            /\ pastes[id].UpdatedAt = now
            /\ pastes[id].CreatedAt < now

\* The errors with which CreatePaste rejects a content.
ValidationErrors == {ErrEmpty, ErrTooLarge}

\* C14: for a submission that is not private or has an owner, CreatePaste
\* returns a validation error exactly when the content is 0 bytes or more
\* than 10<<20 bytes long; content of exactly 10<<20 bytes is stored (when the
\* ID drawn is free); a call that returns an error stores nothing.
C14_SizeValidation ==
    \A content \in SizeContents, isPrivate \in BOOLEAN, userID \in Scopes,
       pasteID \in PasteIDs :
        (~isPrivate \/ userID # Nil) =>
            LET r == CreatePasteResult("", content, "text", isPrivate, FALSE,
                                       Nil, userID, pasteID)
            IN  /\ r.err \in ValidationErrors <=>
                        \/ ContentLen(content) = 0
                        \/ ContentLen(content) > 10 * 1024 * 1024
                /\ r.err # NoErr => r.table = pastes
                /\ (content = AtLimit /\ pasteID \notin DOMAIN pastes) =>
                        /\ r.err = NoErr
                        /\ r.paste[1].Content = AtLimit
                        /\ \E id \in DOMAIN r.table : r.table[id].Content = AtLimit

\* C14 witness: a content of 10<<20 bytes is stored and a create has just been
\* refused as too large.
C14_Witness ==
    /\ last = Call("create", ErrTooLarge)
    /\ \E id \in Visible : pastes[id].Content = AtLimit

\* C15, the call: DeleteUser on a stored user returns nil and leaves no user
\* row, no session, no API key and no admin marker of that user, and no paste
\* of that user that a query sees; on a user that is not stored it returns an
\* error.
C15_DeleteUserCall ==
    \A u \in Users \cup {AbsentUser} :
        LET r == DeleteUserResult(u)
        IN  IF u \in DOMAIN users
            THEN /\ r.err = NoErr
                 /\ u \notin DOMAIN r.users
                 /\ \A id \in DOMAIN r.sessions : r.sessions[id].UserID # u
                 /\ \A id \in DOMAIN r.apikeys : r.apikeys[id].UserID # u
                 /\ \A id \in DOMAIN r.admins : r.admins[id].UserID # u
                 /\ \A id \in DOMAIN r.pastes :
                        r.pastes[id].UserID = Some(u) => r.pastes[id].DeletedAt # Nil
            ELSE r.err # NoErr

\* C15, the state after: for every user DeleteUser has deleted there is no
\* user row, session, API key or admin marker, and GetPaste returns not found
\* to every viewer on every paste of that user.
C15_DeletedUserIsGone ==
    \A u \in deletedUsers :
        /\ u \notin DOMAIN users
        /\ \A id \in DOMAIN sessions : sessions[id].UserID # u
        /\ \A id \in DOMAIN apikeys : apikeys[id].UserID # u
        /\ ~IsAdmin(u)
        /\ \A id \in DOMAIN pastes :
                pastes[id].UserID = Some(u) =>
                    \A v \in Viewers : GetPaste(id, v).err = ErrNotFound

\* C15: DeleteUser on an existing user succeeds and leaves no session, API
\* key, retrievable paste or admin marker referring to the user and no user
\* record; DeleteUser on a user that does not exist returns an error.
C15_DeleteUserRemovesEverything ==
    C15_DeleteUserCall /\ C15_DeletedUserIsGone

\* C15 witness: DeleteUser has just succeeded on a user who had a paste, the
\* admin marker and one of the two API keys, while another user and its key
\* are still stored.
C15_Witness ==
    /\ last = Call("deleteUser", NoErr)
    /\ \E id \in DOMAIN pastes :
            pastes[id].UserID # Nil /\ pastes[id].UserID[1] \in deletedUsers
    /\ seq.admins = 1 /\ admins = <<>>
    /\ seq.api_keys = 2 /\ Cardinality(DOMAIN apikeys) = 1
    /\ Cardinality(DOMAIN users) = 1

\* C16, the state part: GetSession succeeds exactly on a stored session whose
\* expiration instant is later than now, and that instant is the creation
\* time plus 30 days.
C16_ValidUntilExpiry ==
    /\ \A s \in SessionIDs \cup {AbsentSession} :
            GetSession(s).err = NoErr <=>
                (s \in DOMAIN sessions /\ now < sessions[s].ExpiresAt)
    /\ \A s \in DOMAIN sessions :
            sessions[s].ExpiresAt = sessions[s].CreatedAt + 30 * 24 * 60

\* C16, the step part: no operation changes the expiration instant of a
\* stored session.
C16_ExpiryKept ==
    \A s \in DOMAIN sessions :
        s \in DOMAIN sessions' => sessions'[s].ExpiresAt = sessions[s].ExpiresAt

\* C16: GetSession(s) succeeds exactly while s is stored and now is before its
\* expiration instant, which is the creation time plus 30 days and never
\* changes.
C16_SessionValidFor30Days ==
    []C16_ValidUntilExpiry /\ [][C16_ExpiryKept]_vars

\* C16 witness: GetSession has just refused a session that is still stored,
\* at the very instant of its expiration.
C16_Witness ==
    /\ last = Call("getSession", ErrSession)
    /\ \E s \in DOMAIN sessions : sessions[s].ExpiresAt = now

\* C17: DeleteSession(s) returns nil whether s is stored or not; in the table
\* it leaves GetSession(s) fails, and GetSession on every other session
\* returns what it returned before, the same row included.
C17_DeleteSessionOnlyThatOne ==
    \A s \in SessionIDs \cup {AbsentSession} :
        LET r == DeleteSessionResult(s)
        IN  /\ r.err = NoErr
            /\ GetSessionIn(r.table, s).err # NoErr
            /\ \A o \in (SessionIDs \cup {AbsentSession}) \ {s} :
                    /\ GetSessionIn(r.table, o).err = GetSession(o).err
                    /\ GetSessionIn(r.table, o).row = GetSession(o).row
                    /\ o \in DOMAIN sessions =>
                            o \in DOMAIN r.table /\ r.table[o] = sessions[o]

\* C17 witness: DeleteSession has just returned nil and the only user ever
\* registered still has a valid session.
C17_Witness ==
    /\ last = Call("deleteSession", NoErr)
    /\ seq.users = 1
    /\ \E s \in DOMAIN sessions : GetSession(s).err = NoErr

\* C18: Register returns an error and adds no user when the username is
\* shorter than 3 or longer than 50, the password is shorter than 6, or the
\* username is stored already; no two stored users have the same username.
C18_RegisterValidates ==
    /\ \A username \in Usernames, password \in Passwords :
            LET r == RegisterResult(username, password)
            IN  (\/ Len(username) < 3
                 \/ Len(username) > 50
                 \/ Len(password) < 6
                 \/ \E id \in DOMAIN users : users[id].Username = username) =>
                    r.err # NoErr /\ r.table = users
    /\ \A i \in DOMAIN users, j \in DOMAIN users :
            users[i].Username = users[j].Username => i = j

\* C18 witness: users with usernames of 3 and of 50 bytes are stored and a
\* Register with a stored username has just been refused.
C18_Witness ==
    /\ last = Call("register", ErrUsernameExists)
    /\ \E i \in DOMAIN users : Len(users[i].Username) = 3
    /\ \E i \in DOMAIN users : Len(users[i].Username) = 50

\* C19, the call: ValidateAPIKey fails, leaving the table as it was, when no
\* stored key has the key string or that key's expiration instant is before
\* now; otherwise it returns the row of the key's owner and leaves every key
\* as it was except for the last-used timestamp of that key.
C19_ValidateCall ==
    \A k \in KeyStrings \cup {AbsentKeyString} :
        LET r == ValidateAPIKeyResult(k)
            ids == {id \in DOMAIN apikeys : apikeys[id].Key = k}
        IN  IF \/ ids = {}
               \/ \E id \in ids : /\ apikeys[id].ExpiresAt # Nil
                                  /\ apikeys[id].ExpiresAt[1] < now
            THEN r.err # NoErr /\ r.table = apikeys
            ELSE \E id \in ids :
                    /\ r.err = NoErr
                    /\ apikeys[id].UserID \in DOMAIN users
                    /\ r.row = Some(users[apikeys[id].UserID])
                    /\ DOMAIN r.table = DOMAIN apikeys
                    /\ \A o \in DOMAIN apikeys \ {id} : r.table[o] = apikeys[o]
                    /\ r.table[id] =
                           [apikeys[id] EXCEPT !.LastUsed = r.table[id].LastUsed]

\* C19, the step: a call of ValidateAPIKey changes no other table.
C19_ValidateStep ==
    last'.op = "validateKey" =>
        UNCHANGED <<pastes, users, sessions, admins, seq>>

\* C19: ValidateAPIKey fails on an unknown or expired key; otherwise it
\* returns the owning user and changes nothing in the store but the last-used
\* timestamp of that key.
C19_ValidateAPIKey ==
    []C19_ValidateCall /\ [][C19_ValidateStep]_vars

\* C19 witness: a key has just been validated at the instant of its
\* expiration, which is not in the past yet, and carries the time of the call.
C19_Witness ==
    /\ last = Call("validateKey", NoErr)
    /\ \E id \in DOMAIN apikeys :
            apikeys[id].LastUsed = Some(now) /\ apikeys[id].ExpiresAt = Some(now)

\* C20: DeleteAPIKey(keyID, userID) on a key of userID returns nil and removes
\* that key, after which ValidateAPIKey on its key string fails; on a key of
\* another user or a key that is not stored it returns an error and removes
\* nothing; ValidateAPIKey on every other key string returns the same error
\* and user as before the delete.
C20_DeleteAPIKeyOwnOnly ==
    \A keyID \in KeyIDs \cup {AbsentKey}, u \in Users :
        LET r == DeleteAPIKeyResult(keyID, u)
        IN  IF keyID \in DOMAIN apikeys /\ apikeys[keyID].UserID = u
            THEN /\ r.err = NoErr
                 /\ keyID \notin DOMAIN r.table
                 /\ ValidateAPIKeyIn(r.table, apikeys[keyID].Key).err # NoErr
                 /\ \A o \in DOMAIN apikeys \ {keyID} :
                        /\ o \in DOMAIN r.table
                        /\ r.table[o] = apikeys[o]
                        /\ ValidateAPIKeyIn(r.table, apikeys[o].Key).err
                               = ValidateAPIKeyResult(apikeys[o].Key).err
                        /\ ValidateAPIKeyIn(r.table, apikeys[o].Key).row
                               = ValidateAPIKeyResult(apikeys[o].Key).row
            ELSE r.err # NoErr /\ r.table = apikeys

\* C20 witness: the only user ever registered created two keys, DeleteAPIKey
\* has just removed one of them and the other is still valid.
C20_Witness ==
    /\ last = Call("deleteKey", NoErr)
    /\ seq.users = 1 /\ seq.api_keys = 2
    /\ \E id \in DOMAIN apikeys :
            ValidateAPIKeyResult(apikeys[id].Key).err = NoErr

\* C21: after CleanupExpiredPastes the pastes table holds no row whose
\* expiration instant is in the past.
C21_SweepLeavesNoExpiredRow ==
    last = Call("cleanup", NoErr) =>
        \A id \in DOMAIN pastes :
            ~(pastes[id].ExpiresAt # Nil /\ pastes[id].ExpiresAt[1] < now)

\* C22: in the state a CleanupExpiredPastes leaves, a second
\* CleanupExpiredPastes removes zero rows and leaves the table as it is.
C22_SecondSweepRemovesNothing ==
    last = Call("cleanup", NoErr) =>
        /\ CleanupExpiredPastesResult.count = 0
        /\ CleanupExpiredPastesResult.table = pastes

\* C22 witness: a sweep has just run and a paste that no DeletePaste deleted
\* is marked deleted, so a sweep has removed it.
C22_Witness ==
    /\ last = Call("cleanup", NoErr)
    /\ \E id \in DOMAIN pastes \ deletedOK :
            pastes[id].DeletedAt # Nil /\ pastes[id].ExpiresAt # Nil

\* C26: the paste a successful CreatePaste returns is stored, carries the
\* submitted content and passes every condition of a GetPaste by the creator:
\* it is not deleted, not expired and not hidden from the creator.
C26_CreateThenGet ==
    \A content \in {"", "a"}, isPrivate \in BOOLEAN, expiresIn \in ExpiresIns,
       userID \in Scopes, pasteID \in PasteIDs :
        LET r == CreatePasteResult("", content, "text", isPrivate, FALSE,
                                   expiresIn, userID, pasteID)
        IN  r.err = NoErr =>
                /\ r.paste[1].Content = content
                /\ r.paste[1].ID \in DOMAIN r.table
                /\ r.table[r.paste[1].ID] = r.paste[1]
                /\ NotDeleted(r.paste[1])
                /\ ~Expired(r.paste[1])
                /\ ~Hidden(r.paste[1], userID)

\* C28: on a stored paste whose expiration instant is in the past and which
\* no sweep has removed, UpdatePaste and DeletePaste by the owner return not
\* found and leave the table as it was.
C28_ExpiredCannotBeMutated ==
    \A id \in Visible :
        (Expired(pastes[id]) /\ pastes[id].UserID # Nil) =>
            LET u == pastes[id].UserID[1]
                r == UpdatePasteResult(id, "", "a", "text", FALSE, u)
                d == DeletePasteResult(id, u)
            IN  /\ r.err = ErrNotFound /\ r.table = pastes
                /\ d.err = ErrNotFound /\ d.table = pastes

\* C30: GetPaste by an anonymous viewer returns every paste that
\* GetAllPublicPastes lists, and GetPaste by u returns every paste that
\* GetUserPastes(u) lists.
C30_ListedIsFetchable ==
    /\ \A paste \in GetAllPublicPastes :
            GetPaste(paste.ID, Nil).err = NoErr
    /\ \A u \in Users :
            \A paste \in GetUserPastes(u) :
                GetPaste(paste.ID, Some(u)).err = NoErr

\* C23: at every instant at which a sweep in progress can execute its
\* statement, every paste it would remove has an expiration instant, that
\* instant is in the past and GetPaste returns the paste to no viewer; every
\* session it would remove has expired and GetSession does not return it.
C23_SweepRemovesOnlyExpired ==
    \A p \in Procs :
        /\ calls[p].op = "sweep" =>
                \A id \in SweepIDsAt(calls[p].t) :
                    /\ pastes[id].ExpiresAt # Nil
                    /\ pastes[id].ExpiresAt[1] < now
                    /\ \A v \in Viewers : GetPaste(id, v).err = ErrNotFound
        /\ calls[p].op = "sweepSessions" =>
                \A id \in ExpiredSessionIDsAt(calls[p].t) :
                    /\ sessions[id].ExpiresAt < now
                    /\ GetSession(id).err # NoErr

\* C23 witness: a sweep of pastes and a sweep of sessions are in progress,
\* both read the clock before it last moved, a paste and a session that expire
\* at this very instant and a paste without expiration are stored, and a paste
\* has expired.
C23_Witness ==
    /\ \E p \in Procs : calls[p].op = "sweep" /\ calls[p].t < now
    /\ \E p \in Procs : calls[p].op = "sweepSessions" /\ calls[p].t < now
    /\ \E id \in Visible : pastes[id].ExpiresAt = Some(now)
    /\ \E id \in Visible : pastes[id].ExpiresAt = Nil
    /\ \E id \in DOMAIN sessions : sessions[id].ExpiresAt = now

\* C24: every paste on which a Save of UpdatePaste has been executed carries
\* the title, content, fingerprint, language and unlisted flag of one and the
\* same executed update request.
C24_RowIsOneWholeUpdate ==
    \A id \in DOMAIN pastes :
        (\E q \in saved : q.id = id) =>
            \E q \in saved :
                /\ q.id = id
                /\ pastes[id].Title = q.title
                /\ pastes[id].Content = q.content
                /\ pastes[id].ContentHash = computeFileHash(q.content)
                /\ pastes[id].Language = q.language
                /\ pastes[id].Unlisted = q.unlisted

\* C24 witness: two different updates of one paste were in progress together;
\* one has saved, and the other, which read the row before that, has not yet.
C24_Witness ==
    \E p \in Procs :
        /\ calls[p].op = "update"
        /\ calls[p].seen # pastes[calls[p].req.id]
        /\ \E q \in saved : q.id = calls[p].req.id /\ q # calls[p].req
        /\ last = Call("update", NoErr)

\* C25: a CreatePaste that has missed the dedup lookup inserts its paste under
\* any free ID without looking again, also when a paste of the same owner
\* scope and fingerprint has been stored meanwhile.
C25_MissedLookupInserts ==
    \A p \in Procs :
        calls[p].op = "create" =>
            \A pasteID \in PasteIDs \ DOMAIN pastes :
                LET r == Insert(PendingPaste(p, pasteID))
                IN  /\ r.err = NoErr
                    /\ pasteID \in DOMAIN r.table
                    /\ r.table[pasteID].ContentHash = calls[p].hash
                    /\ r.table[pasteID].UserID = calls[p].userID

\* C25 witness: no update has ever been saved, and two stored pastes have the
\* same owner scope and fingerprint.
C25_Witness ==
    /\ saved = {}
    /\ \E i \in Visible, j \in Visible :
            /\ i # j
            /\ pastes[i].UserID = pastes[j].UserID
            /\ pastes[i].ContentHash = pastes[j].ContentHash

\* C27: a paste on which DeletePaste has returned nil is seen by no query
\* and returned by GetPaste to no viewer, also after an UpdatePaste that read
\* the row before the delete has saved.
C27_UpdateKeepsDeleted ==
    \A id \in deletedOK :
        /\ id \notin Visible
        /\ \A v \in Viewers : GetPaste(id, v).err = ErrNotFound

\* C29: every stored session and API key and every paste that is not deleted
\* and has an owner refers to a stored user.
C29_NoOrphans ==
    /\ \A id \in DOMAIN sessions : sessions[id].UserID \in DOMAIN users
    /\ \A id \in DOMAIN apikeys : apikeys[id].UserID \in DOMAIN users
    /\ \A id \in Visible :
            pastes[id].UserID # Nil => pastes[id].UserID[1] \in DOMAIN users

====
